---- MODULE Spec2Model ----
(***************************************************************************)
(* Model of arb::communicator (src/arbor/communication/communicator.hpp):  *)
(* construction of the connection table, the collective spike exchange,    *)
(* the per-domain merge-join of make_event_queues, min_delay, num_spikes   *)
(* and reset.  Every domain of the simulation runs one communicator over   *)
(* the same recipe; the collectives act on all of them at once.            *)
(*                                                                         *)
(* Indices held in data (index_on_domain, partition offsets, iterator      *)
(* positions) are 0-based as in the C++ source; TLA+ sequences are 1-based *)
(* so element k of a vector v is v[k + 1].                                 *)
(***************************************************************************)
EXTENDS Integers, Sequences, FiniteSets, Bags, TLC

----------------------------------------------------------------------------
(* The modelled world and the bounds of the inputs. *)

\* The domains, 0 .. distributed_->size() - 1.
Domains == {0, 1}

NumDomains == Cardinality(Domains)

\* The gids of the cells of the network, 0 .. num_cells - 1.
Gids == {0, 1, 2}

NumCells == Cardinality(Gids)

\* The recipe returns at most this many connections over all cells.
MaxConns == 2

\* A gathered vector handed to make_event_queues holds at most this many spikes.
MaxSpikes == 3

\* A domain hands at most this many local spikes to one exchange.
MaxLocalSpikes == 2

\* At most this many exchanges are made between two resets.
MaxExchanges == 2

\* A caller calls make_event_queues only while no queue outgrows this.
MaxQueue == 4

\* std::numeric_limits<time_type>::max(), the largest finite time value.
time_type_max == 99

\* The floating point infinity of time_type: above every finite value.
Infinity == time_type_max + 1

----------------------------------------------------------------------------
(* Generic helpers on sequences. *)

Range(s) == {s[k] : k \in DOMAIN s}

Min2(a, b) == IF b < a THEN b ELSE a

RECURSIVE SumSeq(_)
SumSeq(s) == IF s = <<>> THEN 0 ELSE Head(s) + SumSeq(Tail(s))

RECURSIVE Concat(_)
Concat(ss) == IF ss = <<>> THEN <<>> ELSE Head(ss) \o Concat(Tail(ss))

\* The half-open range [lo, hi) of vector v (0-based offsets).
subrange_view(v, lo, hi) == SubSeq(v, lo + 1, hi)

\* Sequences over S of length at most n.
SeqsUpTo(S, n) == UNION {[1 .. k -> S] : k \in 0 .. n}

\* The permutations of 1..n.
PermsOf(n) == {p \in [1 .. n -> 1 .. n] : \A a, b \in 1 .. n : p[a] = p[b] => a = b}

\* The rearrangements of sequence s.
Rearrangements(s) == {[k \in 1 .. Len(s) |-> s[p[k]]] : p \in PermsOf(Len(s))}

\* The number of positions of s holding x.
CountIn(s, x) == Cardinality({k \in DOMAIN s : s[k] = x})

\* s and t hold the same elements with the same multiplicities.
SameMultiset(s, t) ==
    /\ Len(s) = Len(t)
    /\ \A x \in Range(s) \cup Range(t) : CountIn(s, x) = CountIn(t, x)

IsPrefix(s, t) == Len(s) <= Len(t) /\ SubSeq(t, 1, Len(s)) = s

\* The sequences whose k-th element is drawn from sets[k].
RECURSIVE SeqProduct(_)
SeqProduct(sets) ==
    IF sets = <<>> THEN {<<>>}
    ELSE {<<h>> \o t : h \in Head(sets), t \in SeqProduct(Tail(sets))}

----------------------------------------------------------------------------
(* Identifiers, connections, spikes, events. *)

\* operator< of cell_member_type = (gid, index): lexicographic.
MemberLess(a, b) == a[1] < b[1] \/ (a[1] = b[1] /\ a[2] < b[2])

\* connection::make_event: the event a connection delivers for a spike.
make_event(c, s) ==
    [target |-> c.index_on_domain, weight |-> c.weight, time |-> s.time + c.delay]

\* The order util::sort puts connections in: operator< of connection.
ConnLess(a, b) ==
    \/ MemberLess(a.source, b.source)
    \/ (a.source = b.source /\ MemberLess(a.dest, b.dest))

\* The outcomes of an unstable sort of s by the strict order Less(_, _):
\* the rearrangements of s with no element before a smaller one.
SortOutcomes(s, Less(_, _)) ==
    {t \in Rearrangements(s) :
        \A a, b \in DOMAIN t : a < b => ~Less(t[b], t[a])}

----------------------------------------------------------------------------
(* The domain decomposition. *)

\* (cell_gid_type)(num_cells*(j/(double)num_domains)), lines 152-153: the
\* quotient and the product are rounded to double and the product is
\* truncated.  Where num_cells*j/num_domains is not a whole number the
\* result is its integer part; where it is a whole number k the rounded
\* product is k or just below k, and just below k truncates to k - 1.
\* p.lowered holds the j whose product comes out just below.
scaled(p, j) ==
    IF j \in p.lowered
    THEN (p.num_cells * j) \div p.size - 1
    ELSE (p.num_cells * j) \div p.size

\* The j between the ends whose product may come out just below: 0/n is 0
\* and n/n is 1 without rounding, and a product of 0 is exact.
MayLower(size, num_cells) ==
    {j \in 1 .. size - 1 : (num_cells * j) % size = 0 /\ num_cells * j >= size}

\* A distribute_cells that rounds the upper end of the block up.
distribute_cells_rounding_up(p, domain_id) ==
    <<scaled(p, domain_id),
      (p.num_cells * (domain_id + 1) + p.size - 1) \div p.size>>

\* distribute_cells on domain domain_id of policy p: the block
\* [cell_from, cell_to).
distribute_cells_on(p, domain_id) ==
    <<scaled(p, domain_id), scaled(p, domain_id + 1)>>

\* distribute_cells: the block [cell_from, cell_to) of gids of a domain of
\* the modelled network.
distribute_cells(domain_id) ==
    distribute_cells_on([size |-> NumDomains, num_cells |-> NumCells, lowered |-> {}],
                        domain_id)

\* domain_decomposition::gid_domain: the domain that owns a gid.
gid_domain(gid) ==
    CHOOSE d \in Domains :
        distribute_cells(d)[1] <= gid /\ gid < distribute_cells(d)[2]

LocalGids(d) == {g \in Gids : gid_domain(g) = d}

\* The group layouts of a domain: its cells listed once each, in any order,
\* either all in one group or each in a group of its own.
GroupLayouts(d) ==
    LET n     == Cardinality(LocalGids(d))
        lists == {g \in [1 .. n -> LocalGids(d)] :
                     \A a, b \in 1 .. n : g[a] = g[b] => a = b}
    IN  {<<g>> : g \in lists} \cup {[k \in 1 .. n |-> <<g[k]>>] : g \in lists}

----------------------------------------------------------------------------
(* communicator::communicator *)

\* Lines 79-83: the gids of the groups, flattened in group order.
FlatGids(grps) == Concat(grps)

\* A gid_info that counts the positions from one.
GidInfosOneBased(rec, gids) ==
    [k \in 1 .. Len(gids) |->
        [gid |-> gids[k], index_on_domain |-> k, conns |-> rec[gids[k]]]]

\* A gid_info that records the gid where the code records the position.
GidInfosByGid(rec, gids) ==
    [k \in 1 .. Len(gids) |->
        [gid |-> gids[k], index_on_domain |-> gids[k], conns |-> rec[gids[k]]]]

\* Lines 85-91: gid_infos[i] = gid_info(gid, i, rec.connections_on(gid)).
GidInfos(rec, gids) ==
    [k \in 1 .. Len(gids) |->
        [gid |-> gids[k], index_on_domain |-> k - 1, conns |-> rec[gids[k]]]]

\* The (connection, cell) pairs in the order the sweeps of lines 98-104 and
\* 113-119 visit them: cell by cell, each cell's connections in list order.
RECURSIVE CellSweep(_)
CellSweep(infos) ==
    IF infos = <<>> THEN <<>>
    ELSE LET g == Head(infos)
         IN  [k \in 1 .. Len(g.conns) |->
                 [con |-> g.conns[k], index_on_domain |-> g.index_on_domain]]
             \o CellSweep(Tail(infos))

\* Lines 95-104: the source domain of every connection, in sweep order.
SrcDomains(sweep) == [k \in 1 .. Len(sweep) |-> gid_domain(sweep[k].con.source[1])]

\* Lines 97-104: the number of connections from each source domain.
SrcCounts(src_domains) ==
    [d \in 1 .. NumDomains |->
        Cardinality({k \in DOMAIN src_domains : src_domains[k] = d - 1})]

\* algorithms::make_index: the exclusive prefix sums of the counts, with the
\* total appended.
make_index(counts) ==
    [k \in 1 .. Len(counts) + 1 |-> SumSeq(SubSeq(counts, 1, k - 1))]

\* A placement that stores the connection at pos into slot pos.
RECURSIVE PlaceInSweepOrder(_, _, _, _, _)
PlaceInSweepOrder(sweep, src_domains, pos, offsets, conns) ==
    IF pos >= Len(sweep) THEN conns
    ELSE LET c    == sweep[pos + 1].con
             made == [source |-> c.source, dest |-> c.dest,
                      weight |-> c.weight, delay |-> c.delay,
                      index_on_domain |-> sweep[pos + 1].index_on_domain]
         IN  PlaceInSweepOrder(sweep, src_domains, pos + 1, offsets,
                               [conns EXCEPT ![pos + 1] = made])

\* Lines 112-119: place the connection at pos into the next free slot of its
\* source domain's bucket, then go on with pos + 1.
RECURSIVE Place(_, _, _, _, _)
Place(sweep, src_domains, pos, offsets, conns) ==
    IF pos >= Len(sweep) THEN conns
    ELSE LET dom  == src_domains[pos + 1]
             i    == offsets[dom + 1]
             c    == sweep[pos + 1].con
             made == [source |-> c.source, dest |-> c.dest,
                      weight |-> c.weight, delay |-> c.delay,
                      index_on_domain |-> sweep[pos + 1].index_on_domain]
         IN  Place(sweep, src_domains, pos + 1,
                   [offsets EXCEPT ![dom + 1] = i + 1],
                   [conns EXCEPT ![i + 1] = made])

\* Lines 121-125: the partition of the local cells by group.
GroupDivisions(grps) == make_index([g \in 1 .. Len(grps) |-> Len(grps[g])])

\* A constructor without the sorts of lines 130-133.
SortSkippedBuckets(conns, cp, dom) == {conns}

\* Lines 127-133: every bucket sorted on its own; the buckets in order.
RECURSIVE SortBuckets(_, _, _)
SortBuckets(conns, cp, dom) ==
    IF dom >= NumDomains THEN {<<>>}
    ELSE {s \o rest :
            s \in SortOutcomes(subrange_view(conns, cp[dom + 1], cp[dom + 2]), ConnLess),
            rest \in SortBuckets(conns, cp, dom + 1)}

\* A constructor whose offsets alias connection_part_ (auto& at line 111):
\* the placement loop advances the stored partition.
ConstructAliasingOffsets(rec, grps) ==
    LET gids        == FlatGids(grps)
        gid_infos   == GidInfos(rec, gids)
        sweep       == CellSweep(gid_infos)
        n_cons      == SumSeq([k \in 1 .. Len(gid_infos) |-> Len(gid_infos[k].conns)])
        src_domains == SrcDomains(sweep)
        cp          == make_index(SrcCounts(src_domains))
        blank       == [k \in 1 .. n_cons |-> <<>>]
        placed      == Place(sweep, src_domains, 0, cp, blank)
        advanced    == [k \in 1 .. Len(cp) |-> IF k < Len(cp) THEN cp[k + 1] ELSE cp[k]]
    IN  {[num_domains      |-> NumDomains,
          num_local_groups |-> Len(grps),
          num_local_cells  |-> Len(gids),
          connections      |-> placed,
          connection_part  |-> advanced,
          index_divisions  |-> GroupDivisions(grps),
          num_spikes       |-> 0]}

\* The communicators the constructor may build on a domain with group list
\* grps from the recipe rec.
Construct(rec, grps) ==
    LET gids        == FlatGids(grps)
        gid_infos   == GidInfos(rec, gids)
        sweep       == CellSweep(gid_infos)
        n_cons      == SumSeq([k \in 1 .. Len(gid_infos) |-> Len(gid_infos[k].conns)])
        src_domains == SrcDomains(sweep)
        cp          == make_index(SrcCounts(src_domains))
        blank       == [k \in 1 .. n_cons |-> <<>>]
        placed      == Place(sweep, src_domains, 0, cp, blank)
    IN  {[num_domains      |-> NumDomains,
          num_local_groups |-> Len(grps),
          num_local_cells  |-> Len(gids),
          connections      |-> sorted,
          connection_part  |-> cp,
          index_divisions  |-> GroupDivisions(grps),
          num_spikes       |-> 0] : sorted \in SortBuckets(placed, cp, 0)}

\* A range that always starts at the first cell.
group_queue_range_from_zero(c, i) == <<0, c.index_divisions[i + 2]>>

\* Lines 137-140: group_queue_range(i) = index_part_[i], the pair of
\* consecutive divisions.
group_queue_range(c, i) == <<c.index_divisions[i + 1], c.index_divisions[i + 2]>>

----------------------------------------------------------------------------
(* The distributed transport (distributed_context). *)

\* A gather that puts the receiving domain's own spikes first.
gather_spikes_own_first(rank, locals) ==
    LET order == <<rank>> \o [k \in 1 .. NumDomains - 1 |->
                                 IF k - 1 < rank THEN k - 1 ELSE k]
    IN  [values    |-> Concat([k \in 1 .. NumDomains |-> locals[order[k]]]),
         partition |-> make_index([k \in 1 .. NumDomains |-> Len(locals[order[k]])])]

\* gather_spikes as seen by domain rank: the domains' spike vectors one after
\* the other in domain order, with the offsets of the slices.
gather_spikes(rank, locals) ==
    [values    |-> Concat([d \in 1 .. NumDomains |-> locals[d - 1]]),
     partition |-> make_index([d \in 1 .. NumDomains |-> Len(locals[d - 1])])]

RECURSIVE MinOver(_)
MinOver(s) == IF Len(s) = 1 THEN s[1] ELSE Min2(s[1], MinOver(Tail(s)))

\* min as seen by domain rank: the allreduce-min of the domains' values.
distributed_min(rank, values) ==
    MinOver([d \in 1 .. NumDomains |-> values[d - 1]])

----------------------------------------------------------------------------
(* communicator::min_delay *)

\* A loop that assigns the delay instead of taking the minimum.
LocalMinOverwrites(connections, local_min) ==
    IF connections = <<>> THEN local_min
    ELSE connections[Len(connections)].delay

\* Lines 144-147: the running minimum over the table, from time_type's max.
RECURSIVE LocalMin(_, _)
LocalMin(connections, local_min) ==
    IF connections = <<>> THEN local_min
    ELSE LocalMin(Tail(connections), Min2(local_min, Head(connections).delay))

\* A running minimum started from infinity() instead of max().
local_min_delay_from_infinity(c) == LocalMin(c.connections, Infinity)

local_min_delay(c) == LocalMin(c.connections, time_type_max)

----------------------------------------------------------------------------
(* communicator::exchange *)

SpikeLess(a, b) == MemberLess(a.source, b.source)

\* An exchange that gathers the spikes as they were passed.
SortSkipped(local_spikes) == {local_spikes}

\* Line 159: util::sort_by(local_spikes, source), an unstable sort.
SortBySource(local_spikes) == SortOutcomes(local_spikes, SpikeLess)

\* A counter that adds the local instead of the global number of spikes.
CountLocalSpikes(num_spikes, local_spikes, global_spikes) ==
    num_spikes + Len(local_spikes)

\* Line 165: num_spikes_ += global_spikes.size().
CountSpikes(num_spikes, local_spikes, global_spikes) ==
    num_spikes + Len(global_spikes.values)

----------------------------------------------------------------------------
(* communicator::make_event_queues *)

\* std::lower_bound on keys[first .. first + len): the first position whose
\* key is not less than v.
RECURSIVE lower_bound(_, _, _, _)
lower_bound(keys, first, len, v) ==
    IF len <= 0 THEN first
    ELSE LET half == len \div 2
             mid  == first + half
         IN  IF MemberLess(keys[mid + 1], v)
             THEN lower_bound(keys, mid + 1, len - half - 1, v)
             ELSE lower_bound(keys, first, half, v)

\* std::upper_bound on keys[first .. first + len): the first position whose
\* key is greater than v.
RECURSIVE upper_bound(_, _, _, _)
upper_bound(keys, first, len, v) ==
    IF len <= 0 THEN first
    ELSE LET half == len \div 2
             mid  == first + half
         IN  IF MemberLess(v, keys[mid + 1])
             THEN upper_bound(keys, first, half, v)
             ELSE upper_bound(keys, mid + 1, len - half - 1, v)

\* std::equal_range on keys[first .. last).
equal_range(keys, first, last, v) ==
    <<lower_bound(keys, first, last - first, v),
      upper_bound(keys, first, last - first, v)>>

SourcesOf(s) == [k \in 1 .. Len(s) |-> s[k].source]

\* Lines 216-218: one push_back per spike of the matched range, in range
\* order, all onto the queue of connection con.
SpikePushes(con, spks, lo, hi) ==
    [k \in 1 .. (hi - lo) |->
        [queue |-> con.index_on_domain, event |-> make_event(con, spks[lo + k])]]

\* A connections-outer walk that resumes the search behind the matched
\* range (sp = sources.second).
RECURSIVE WalkConnectionsPastRange(_, _, _, _)
WalkConnectionsPastRange(cons, spks, cn, sp) ==
    IF ~(cn /= Len(cons) /\ sp /= Len(spks)) THEN <<>>
    ELSE LET sources == equal_range(SourcesOf(spks), sp, Len(spks), cons[cn + 1].source)
         IN  SpikePushes(cons[cn + 1], spks, sources[1], sources[2])
             \o WalkConnectionsPastRange(cons, spks, cn + 1, sources[2])

\* Lines 212-222: connections outer, equal_range into the spikes.  Yields
\* the push_backs in the order the loop makes them.
RECURSIVE WalkConnections(_, _, _, _)
WalkConnections(cons, spks, cn, sp) ==
    IF ~(cn /= Len(cons) /\ sp /= Len(spks)) THEN <<>>
    ELSE LET sources == equal_range(SourcesOf(spks), sp, Len(spks), cons[cn + 1].source)
         IN  SpikePushes(cons[cn + 1], spks, sources[1], sources[2])
             \o WalkConnections(cons, spks, cn + 1, sources[1])

\* A loop that makes every event of the range from its first connection.
TargetPushesFromFirst(cons, spk, lo, hi) ==
    [k \in 1 .. (hi - lo) |->
        [queue |-> cons[lo + k].index_on_domain, event |-> make_event(cons[lo + 1], spk)]]

\* Lines 229-231: one push_back per connection of the matched range, in
\* range order, each onto that connection's queue.
TargetPushes(cons, spk, lo, hi) ==
    [k \in 1 .. (hi - lo) |->
        [queue |-> cons[lo + k].index_on_domain, event |-> make_event(cons[lo + k], spk)]]

\* A spikes-outer walk that resumes the search behind the matched range
\* (cn = targets.second).
RECURSIVE WalkSpikesPastRange(_, _, _, _)
WalkSpikesPastRange(cons, spks, cn, sp) ==
    IF ~(cn /= Len(cons) /\ sp /= Len(spks)) THEN <<>>
    ELSE LET targets == equal_range(SourcesOf(cons), cn, Len(cons), spks[sp + 1].source)
         IN  TargetPushes(cons, spks[sp + 1], targets[1], targets[2])
             \o WalkSpikesPastRange(cons, spks, targets[2], sp + 1)

\* Lines 225-235: spikes outer, equal_range into the connections.
RECURSIVE WalkSpikes(_, _, _, _)
WalkSpikes(cons, spks, cn, sp) ==
    IF ~(cn /= Len(cons) /\ sp /= Len(spks)) THEN <<>>
    ELSE LET targets == equal_range(SourcesOf(cons), cn, Len(cons), spks[sp + 1].source)
         IN  TargetPushes(cons, spks[sp + 1], targets[1], targets[2])
             \o WalkSpikes(cons, spks, targets[1], sp + 1)

\* A choice that walks the connections on a tie as well.
ConnectionsOuterOnTie(cons, spks) == Len(cons) <= Len(spks)

\* Line 211: the walk chosen for a domain.
ConnectionsOuter(cons, spks) == Len(cons) < Len(spks)

\* Lines 192-236: the push_backs made for source domain dom.
DomainPushes(c, global_spikes, dom) ==
    LET cp   == c.connection_part
        sp   == global_spikes.partition
        cons == subrange_view(c.connections, cp[dom + 1], cp[dom + 2])
        spks == subrange_view(global_spikes.values, sp[dom + 1], sp[dom + 2])
    IN  IF ConnectionsOuter(cons, spks)
        THEN WalkConnections(cons, spks, 0, 0)
        ELSE WalkSpikes(cons, spks, 0, 0)

\* A loop over the domains in decreasing order.
RECURSIVE AllPushesDescending(_, _, _)
AllPushesDescending(c, global_spikes, dom) ==
    IF dom >= c.num_domains THEN <<>>
    ELSE AllPushesDescending(c, global_spikes, dom + 1) \o DomainPushes(c, global_spikes, dom)

\* Line 191: the domains in increasing order.
RECURSIVE AllPushes(_, _, _)
AllPushes(c, global_spikes, dom) ==
    IF dom >= c.num_domains THEN <<>>
    ELSE DomainPushes(c, global_spikes, dom) \o AllPushes(c, global_spikes, dom + 1)

\* An assignment where the code appends.
push_back_overwrites(q, e) == <<e>>

\* pse_vector::push_back.
push_back(q, e) == Append(q, e)

RECURSIVE ApplyPushes(_, _)
ApplyPushes(qs, pushes) ==
    IF pushes = <<>> THEN qs
    ELSE LET p == Head(pushes)
         IN  ApplyPushes([qs EXCEPT ![p.queue + 1] = push_back(@, p.event)],
                         Tail(pushes))

\* A make_event_queues that empties the queues before it fills them.
make_event_queues_clearing(c, global_spikes, qs) ==
    ApplyPushes([k \in DOMAIN qs |-> <<>>], AllPushes(c, global_spikes, 0))

\* The queues after make_event_queues(global_spikes, queues).
make_event_queues(c, global_spikes, qs) ==
    ApplyPushes(qs, AllPushes(c, global_spikes, 0))

----------------------------------------------------------------------------
(* The state: the inputs of construction, one communicator per domain, and *)
(* what the callers hold.                                                   *)

VARIABLES
    recipe,         \* gid -> the connections rec.connections_on(gid) returns
    groups,         \* domain -> dom_dec.groups of that domain (lists of gids)
    comm,           \* domain -> the communicator object of that domain
    queues,         \* domain -> the caller's vector of event queues
    global_spikes,  \* domain -> the gathered_vector the last exchange returned
    call,           \* the last call: its name, domain, arguments, result
    since_reset,    \* domain -> sizes of the exchanges since the last reset
    policy,         \* global_policy: the number of domains, the number of cells
                    \* handed to distribute_cells, and how its products rounded
    cell_range,     \* domain -> the block distribute_cells returned there
    running         \* the constructor or make_event_queues call in progress

vars == <<recipe, groups, comm, queues, global_spikes, call, since_reset,
         policy, cell_range, running>>

\* The functions on the domains whose value at d is drawn from F(d).
PerDomain(F(_)) ==
    {[d \in Domains |-> s[d + 1]] : s \in SeqProduct([k \in 1 .. NumDomains |-> F(k - 1)])}

NoSpikes == [values |-> <<>>, partition |-> [k \in 1 .. NumDomains + 1 |-> 0]]

\* The recipe holding the (gid, connection) entries of list, in list order.
RecipeOf(list) ==
    [g \in Gids |->
        LET mine(e) == e[1] = g
            own     == SelectSeq(list, mine)
        IN  [k \in 1 .. Len(own) |-> own[k][2]]]

\* The recipes of at most n connections with sources, weights and delays
\* drawn from the given sets.
RecipesUpTo(n, sources, weights, delays) ==
    LET entries == {<<g, [source |-> s, dest |-> <<g, 0>>, weight |-> w, delay |-> t]>> :
                       g \in Gids, s \in sources, w \in weights, t \in delays}
    IN  {RecipeOf(l) : l \in SeqsUpTo(entries, n)}

\* The recipes of at most n connections with sources drawn from the given
\* set, each connection told from the others by its weight and its delay.
TaggedRecipes(n, sources) ==
    LET entry(l, k) == <<l[k][1], [source |-> l[k][2], dest |-> <<l[k][1], 0>>,
                                   weight |-> 10 + k, delay |-> k]>>
    IN  {RecipeOf([k \in 1 .. Len(l) |-> entry(l, k)]) :
            l \in SeqsUpTo(Gids \X sources, n)}

\* No stepwise call in progress.
Idle == [op |-> "none"]

\* The decomposition of the modelled network: NumCells cells on NumDomains
\* domains, every domain holding its block.
Decomposed ==
    /\ policy = [size |-> NumDomains, num_cells |-> NumCells, lowered |-> {}]
    /\ cell_range = [d \in Domains |-> distribute_cells(d)]
    /\ running = Idle

\* Construction on every domain: recipe and decomposition are inputs.
Constructed(recipes, layouts(_)) ==
    /\ Decomposed
    /\ recipe \in recipes
    /\ groups \in PerDomain(layouts)
    /\ LET built(d) == Construct(recipe, groups[d])
       IN  comm \in PerDomain(built)
    /\ since_reset = [d \in Domains |-> <<>>]
    /\ call = [op |-> "construct", dom |-> 0, arg |-> <<>>, ret |-> <<>>, before |-> <<>>]

EmptyQueues == [d \in Domains |-> [k \in 1 .. comm[d].num_local_cells |-> <<>>]]

----------------------------------------------------------------------------
(* The operations. *)

\* exchange, entered by every domain with its own local_spikes: at most
\* max_local spikes drawn from spikes, while no domain has made max_calls
\* exchanges since its last reset.
Exchange(spikes, max_local, max_calls) ==
    /\ \A d \in Domains : Len(since_reset[d]) < max_calls
    /\ \E local_spikes \in [Domains -> SeqsUpTo(spikes, max_local)] :
       LET outcomes(d) == SortBySource(local_spikes[d])
       IN
       \E sorted \in PerDomain(outcomes) :
          LET got == [d \in Domains |-> gather_spikes(d, sorted)]
          IN  /\ global_spikes' = got
              /\ comm' = [d \in Domains |->
                            [comm[d] EXCEPT !.num_spikes =
                                CountSpikes(@, local_spikes[d], got[d])]]
              /\ since_reset' = [d \in Domains |->
                                    Append(since_reset[d], Len(got[d].values))]
              /\ call' = [op |-> "exchange", dom |-> 0, arg |-> local_spikes,
                          ret |-> got, before |-> [d \in Domains |-> comm[d].num_spikes]]
    /\ UNCHANGED <<policy, cell_range, running, recipe, groups, queues>>

\* A failing exchange that has counted its local spikes before the gather.
ExchangeFailsCounted(spikes, max_local, max_calls) ==
    /\ \A d \in Domains : Len(since_reset[d]) < max_calls
    /\ \E local_spikes \in [Domains -> SeqsUpTo(spikes, max_local)] :
       \E failed \in SUBSET Domains \ {{}} :
       LET outcomes(d) == SortBySource(local_spikes[d])
           done        == Domains \ failed
       IN
       \E sorted \in PerDomain(outcomes) :
          LET got == [d \in done |-> gather_spikes(d, sorted)]
          IN  /\ global_spikes' = [d \in Domains |->
                                      IF d \in done THEN got[d] ELSE global_spikes[d]]
              /\ comm' = [d \in Domains |->
                            IF d \in done
                            THEN [comm[d] EXCEPT !.num_spikes =
                                     CountSpikes(@, local_spikes[d], got[d])]
                            ELSE [comm[d] EXCEPT !.num_spikes = @ + Len(local_spikes[d])]]
              /\ since_reset' = [d \in Domains |->
                                    IF d \in done
                                    THEN Append(since_reset[d], Len(got[d].values))
                                    ELSE since_reset[d]]
              /\ call' = [op |-> "exchange_failed", dom |-> 0, arg |-> local_spikes,
                          ret |-> got, before |-> [d \in Domains |-> comm[d].num_spikes],
                          failed |-> failed]
    /\ UNCHANGED <<policy, cell_range, running, recipe, groups, queues>>

\* exchange, entered by every domain, in which gather_spikes (line 164)
\* throws on the domains in failed: there the exception leaves exchange
\* before line 165 and nothing is returned; the other domains complete.
ExchangeFails(spikes, max_local, max_calls) ==
    /\ \A d \in Domains : Len(since_reset[d]) < max_calls
    /\ \E local_spikes \in [Domains -> SeqsUpTo(spikes, max_local)] :
       \E failed \in SUBSET Domains \ {{}} :
       LET outcomes(d) == SortBySource(local_spikes[d])
           done        == Domains \ failed
       IN
       \E sorted \in PerDomain(outcomes) :
          LET got == [d \in done |-> gather_spikes(d, sorted)]
          IN  /\ global_spikes' = [d \in Domains |->
                                      IF d \in done THEN got[d] ELSE global_spikes[d]]
              /\ comm' = [d \in Domains |->
                            IF d \in done
                            THEN [comm[d] EXCEPT !.num_spikes =
                                     CountSpikes(@, local_spikes[d], got[d])]
                            ELSE comm[d]]
              /\ since_reset' = [d \in Domains |->
                                    IF d \in done
                                    THEN Append(since_reset[d], Len(got[d].values))
                                    ELSE since_reset[d]]
              /\ call' = [op |-> "exchange_failed", dom |-> 0, arg |-> local_spikes,
                          ret |-> got, before |-> [d \in Domains |-> comm[d].num_spikes],
                          failed |-> failed]
    /\ UNCHANGED <<policy, cell_range, running, recipe, groups, queues>>

\* make_event_queues(global_spikes, queues) on domain d.
MakeEventQueues(d) ==
    LET after == make_event_queues(comm[d], global_spikes[d], queues[d])
    IN  /\ Len(queues[d]) = comm[d].num_local_cells
        /\ \A k \in DOMAIN after : Len(after[k]) <= MaxQueue
        /\ queues' = [queues EXCEPT ![d] = after]
        /\ call' = [op |-> "make_event_queues", dom |-> d, arg |-> global_spikes[d],
                    ret |-> <<>>, before |-> queues[d]]
        /\ UNCHANGED <<policy, cell_range, running, recipe, groups, comm, global_spikes, since_reset>>

\* min_delay, entered by every domain.
MinDelay ==
    LET local_min == [d \in Domains |-> local_min_delay(comm[d])]
    IN  /\ call' = [op |-> "min_delay", dom |-> 0, arg |-> <<>>,
                    ret |-> [d \in Domains |-> distributed_min(d, local_min)],
                    before |-> <<>>]
        /\ UNCHANGED <<policy, cell_range, running, recipe, groups, comm, queues, global_spikes, since_reset>>

\* A reset that also clears the connection table.
ResetClearsTable(d) ==
    /\ comm' = [comm EXCEPT ![d].num_spikes = 0, ![d].connections = <<>>]
    /\ since_reset' = [since_reset EXCEPT ![d] = <<>>]
    /\ call' = [op |-> "reset", dom |-> d, arg |-> <<>>, ret |-> <<>>,
                before |-> comm[d].num_spikes]
    /\ UNCHANGED <<policy, cell_range, running, recipe, groups, queues, global_spikes>>

\* reset on domain d.
Reset(d) ==
    /\ comm' = [comm EXCEPT ![d].num_spikes = 0]
    /\ since_reset' = [since_reset EXCEPT ![d] = <<>>]
    /\ call' = [op |-> "reset", dom |-> d, arg |-> <<>>, ret |-> <<>>,
                before |-> comm[d].num_spikes]
    /\ UNCHANGED <<policy, cell_range, running, recipe, groups, queues, global_spikes>>

\* The place of a communicator that has not been constructed yet.
NotConstructed ==
    [num_domains |-> 0, num_local_groups |-> 0, num_local_cells |-> 0,
     connections |-> <<>>, connection_part |-> <<>>, index_divisions |-> <<>>,
     num_spikes |-> 0]

Built(d) == comm[d] /= NotConstructed

\* The constructor on domain d.
Build(d) ==
    /\ ~Built(d)
    /\ \E c \in Construct(recipe, groups[d]) : comm' = [comm EXCEPT ![d] = c]
    /\ call' = [op |-> "construct", dom |-> d, arg |-> <<>>, ret |-> <<>>, before |-> <<>>]
    /\ UNCHANGED <<policy, cell_range, running, recipe, groups, queues, global_spikes, since_reset>>

\* group_queue_range(i) on domain d; line 138 asserts i < num_local_groups_.
GroupQueueRange(d) ==
    /\ Built(d)
    /\ \E i \in 0 .. comm[d].num_local_groups - 1 :
          call' = [op |-> "group_queue_range", dom |-> d, arg |-> i,
                   ret |-> group_queue_range(comm[d], i), before |-> <<>>]
    /\ UNCHANGED <<policy, cell_range, running, recipe, groups, comm, queues, global_spikes, since_reset>>

\* num_spikes() on domain d.
NumSpikes(d) ==
    /\ Built(d)
    /\ call' = [op |-> "num_spikes", dom |-> d, arg |-> <<>>,
                ret |-> comm[d].num_spikes, before |-> <<>>]
    /\ UNCHANGED <<policy, cell_range, running, recipe, groups, comm, queues, global_spikes, since_reset>>

----------------------------------------------------------------------------
(* The constructor step by step: the two parallel_for loops run one worker *)
(* at a time in any order, the code between them runs in one piece.        *)

\* Line 90: the element of gid_infos that worker i assigns.
QuerySlot(i) == i

\* A sort worker that is handed the whole table.
SortRangeWhole(cp, i) == <<cp[1], cp[Len(cp)]>>

\* Line 132: the bounds [cp[i], cp[i+1]) of the subrange worker i sorts.
SortRange(cp, i) == <<cp[i + 1], cp[i + 2]>>

\* Lines 49-86: the members are set, gids is filled, gid_infos is resized.
StartConstruct(d) ==
    /\ ~Built(d)
    /\ running.op = "none" \/ (running.op = "construct" /\ running.phase = "done")
    /\ running' = [op |-> "construct", dom |-> d, phase |-> "query",
                   gid_infos |-> [k \in 1 .. Len(FlatGids(groups[d])) |-> <<>>],
                   done |-> {}, connections |-> <<>>, connection_part |-> <<>>,
                   touched |-> {}, order |-> <<>>]
    /\ UNCHANGED <<policy, cell_range, recipe, groups, comm, queues, global_spikes,
                   call, since_reset>>

\* Lines 87-91: worker i of the first parallel_for.
QueryWorker(i) ==
    /\ running.op = "construct" /\ running.phase = "query"
    /\ i \in 0 .. Len(running.gid_infos) - 1
    /\ i \notin running.done
    /\ LET gids == FlatGids(groups[running.dom])
           info == GidInfos(recipe, gids)[i + 1]
       IN  running' = [running EXCEPT
                          !.gid_infos = [@ EXCEPT ![QuerySlot(i) + 1] = info],
                          !.done = @ \cup {i},
                          !.touched = @ \cup {[phase |-> "query", worker |-> i,
                                               elems |-> {QuerySlot(i)}]},
                          !.order = Append(@, <<"query", i>>)]
    /\ UNCHANGED <<policy, cell_range, recipe, groups, comm, queues, global_spikes,
                   call, since_reset>>

\* Lines 93-125, after the first parallel_for has joined: count, prefix sum,
\* placement, group partition.
PlaceAll ==
    /\ running.op = "construct" /\ running.phase = "query"
    /\ running.done = 0 .. Len(running.gid_infos) - 1
    /\ LET sweep       == CellSweep(running.gid_infos)
           src_domains == SrcDomains(sweep)
           cp          == make_index(SrcCounts(src_domains))
           blank       == [k \in 1 .. Len(sweep) |-> <<>>]
       IN  running' = [running EXCEPT
                          !.phase = "sort", !.done = {},
                          !.connection_part = cp,
                          !.connections = Place(sweep, src_domains, 0, cp, blank)]
    /\ UNCHANGED <<policy, cell_range, recipe, groups, comm, queues, global_spikes,
                   call, since_reset>>

\* Lines 130-133: worker i of the second parallel_for sorts its subrange.
SortWorker(i) ==
    /\ running.op = "construct" /\ running.phase = "sort"
    /\ i \in 0 .. NumDomains - 1
    /\ i \notin running.done
    /\ LET r    == SortRange(running.connection_part, i)
           conn == running.connections
       IN  \E s \in SortOutcomes(subrange_view(conn, r[1], r[2]), ConnLess) :
              running' = [running EXCEPT
                             !.connections = SubSeq(conn, 1, r[1]) \o s
                                             \o SubSeq(conn, r[2] + 1, Len(conn)),
                             !.done = @ \cup {i},
                             !.touched = @ \cup {[phase |-> "sort", worker |-> i,
                                                  elems |-> r[1] .. r[2] - 1]},
                             !.order = Append(@, <<"sort", i>>)]
    /\ UNCHANGED <<policy, cell_range, recipe, groups, comm, queues, global_spikes,
                   call, since_reset>>

\* Line 134: the second parallel_for has joined and the constructor returns.
FinishConstruct ==
    /\ running.op = "construct" /\ running.phase = "sort"
    /\ running.done = 0 .. NumDomains - 1
    /\ comm' = [comm EXCEPT ![running.dom] =
                   [num_domains      |-> NumDomains,
                    num_local_groups |-> Len(groups[running.dom]),
                    num_local_cells  |-> Len(FlatGids(groups[running.dom])),
                    connections      |-> running.connections,
                    connection_part  |-> running.connection_part,
                    index_divisions  |-> GroupDivisions(groups[running.dom]),
                    num_spikes       |-> 0]]
    /\ running' = [running EXCEPT !.phase = "done"]
    /\ call' = [op |-> "construct", dom |-> running.dom, arg |-> <<>>, ret |-> <<>>,
                before |-> <<>>]
    /\ UNCHANGED <<policy, cell_range, recipe, groups, queues, global_spikes, since_reset>>

----------------------------------------------------------------------------
(* make_event_queues step by step: one step per iteration of a while loop  *)
(* and per entry to and exit from the body of the domain loop.             *)

Routing == running.op = "make_event_queues"

\* The bucket and the slice of the source domain the running call is at.
RunningCons == subrange_view(comm[running.dom].connections,
                             comm[running.dom].connection_part[running.src + 1],
                             comm[running.dom].connection_part[running.src + 2])

RunningSpks == subrange_view(running.arg.values,
                             running.arg.partition[running.src + 1],
                             running.arg.partition[running.src + 2])

\* Lines 214, 227: the condition of both while loops.
LoopCondition(cons, spks, cn, sp) == cn /= Len(cons) /\ sp /= Len(spks)

\* Lines 183-190: the call is entered on domain d.
StartRoute(d) ==
    /\ running.op = "none" \/ (Routing /\ running.stage = "done")
    /\ Len(queues[d]) = comm[d].num_local_cells
    /\ \A k \in DOMAIN queues[d] :
           Len(make_event_queues(comm[d], global_spikes[d], queues[d])[k]) <= MaxQueue
    /\ running' = [op |-> "make_event_queues", dom |-> d, arg |-> global_spikes[d],
                   src |-> 0, stage |-> "domain", outer |-> "none",
                   cn |-> 0, sp |-> 0, iters |-> 0, visited |-> 0, pushes |-> <<>>]
    /\ UNCHANGED <<policy, cell_range, recipe, groups, comm, queues, global_spikes,
                   call, since_reset>>

\* Lines 191-193, 211-213, 225-226: the body of the domain loop is entered
\* and both iterators are set to the beginning.
EnterDomain ==
    /\ Routing /\ running.stage = "domain"
    /\ running.src < comm[running.dom].num_domains
    /\ running' = [running EXCEPT
                      !.stage = "walk",
                      !.outer = IF ConnectionsOuter(RunningCons, RunningSpks)
                                THEN "cons" ELSE "spks",
                      !.cn = 0, !.sp = 0, !.iters = 0,
                      !.visited = @ + 1]
    /\ UNCHANGED <<policy, cell_range, recipe, groups, comm, queues, global_spikes,
                   call, since_reset>>

\* A connections-outer iteration that forgets ++cn.
ConsIterationStuck(r, cons, spks) ==
    LET sources == equal_range(SourcesOf(spks), r.sp, Len(spks), cons[r.cn + 1].source)
    IN  [r EXCEPT !.pushes = @ \o SpikePushes(cons[r.cn + 1], spks, sources[1], sources[2]),
                  !.sp = sources[1], !.iters = @ + 1]

\* Lines 215-221: one iteration of the connections-outer loop.
ConsIteration(r, cons, spks) ==
    LET sources == equal_range(SourcesOf(spks), r.sp, Len(spks), cons[r.cn + 1].source)
    IN  [r EXCEPT !.pushes = @ \o SpikePushes(cons[r.cn + 1], spks, sources[1], sources[2]),
                  !.sp = sources[1], !.cn = @ + 1, !.iters = @ + 1]

\* Lines 228-234: one iteration of the spikes-outer loop.
SpksIteration(r, cons, spks) ==
    LET targets == equal_range(SourcesOf(cons), r.cn, Len(cons), spks[r.sp + 1].source)
    IN  [r EXCEPT !.pushes = @ \o TargetPushes(cons, spks[r.sp + 1], targets[1], targets[2]),
                  !.cn = targets[1], !.sp = @ + 1, !.iters = @ + 1]

\* One iteration of the while loop the call is in.
WalkStep ==
    /\ Routing /\ running.stage = "walk"
    /\ LoopCondition(RunningCons, RunningSpks, running.cn, running.sp)
    /\ running' = IF running.outer = "cons"
                  THEN ConsIteration(running, RunningCons, RunningSpks)
                  ELSE SpksIteration(running, RunningCons, RunningSpks)
    /\ UNCHANGED <<policy, cell_range, recipe, groups, comm, queues, global_spikes,
                   call, since_reset>>

\* The while condition fails: the body of the domain loop is left.
LeaveDomain ==
    /\ Routing /\ running.stage = "walk"
    /\ ~LoopCondition(RunningCons, RunningSpks, running.cn, running.sp)
    /\ running' = [running EXCEPT !.stage = "domain", !.src = @ + 1]
    /\ UNCHANGED <<policy, cell_range, recipe, groups, comm, queues, global_spikes,
                   call, since_reset>>

\* Line 238: the domain loop is over and the call returns; the push_backs
\* made on the way are in the caller's queues.
FinishRoute ==
    /\ Routing /\ running.stage = "domain"
    /\ running.src >= comm[running.dom].num_domains
    /\ queues' = [queues EXCEPT ![running.dom] = ApplyPushes(@, running.pushes)]
    /\ running' = [running EXCEPT !.stage = "done"]
    /\ call' = [op |-> "make_event_queues", dom |-> running.dom, arg |-> running.arg,
                ret |-> <<>>, before |-> queues[running.dom]]
    /\ UNCHANGED <<policy, cell_range, recipe, groups, comm, global_spikes, since_reset>>

\* distribute_cells on domain d (miniapp.cpp line 66).
DistributeCells(d) ==
    /\ d \in 0 .. policy.size - 1
    /\ d \notin DOMAIN cell_range
    /\ cell_range' = [x \in DOMAIN cell_range \cup {d} |->
                         IF x = d THEN distribute_cells_on(policy, d) ELSE cell_range[x]]
    /\ UNCHANGED <<policy, running, recipe, groups, comm, queues, global_spikes,
                   call, since_reset>>

----------------------------------------------------------------------------
(* Spec: the life of the communicators of a small network, every operation *)
(* in any order.                                                           *)

\* The cells of a domain in one group, in any order.
OneGroup(d) == {l \in GroupLayouts(d) : Len(l) = 1}

LifeSpikes == [source : {<<0, 0>>}, time : {0}]

Init ==
    /\ Constructed(RecipesUpTo(1, {<<0, 0>>}, {1}, {1}), GroupLayouts)
    /\ queues = EmptyQueues
    /\ global_spikes = [d \in Domains |-> NoSpikes]

Next ==
    \/ Exchange(LifeSpikes, MaxLocalSpikes, MaxExchanges)
    \/ \E d \in Domains : MakeEventQueues(d)
    \/ MinDelay
    \/ \E d \in Domains : GroupQueueRange(d)
    \/ \E d \in Domains : NumSpikes(d)
    \/ \E d \in Domains : Reset(d)

Spec == Init /\ [][Next]_vars

----------------------------------------------------------------------------
(* RouteSpec: make_event_queues as a function of the connection table, the *)
(* gathered spikes and the queues.  The code never inspects a weight, a    *)
(* delay or a time, so each connection and each spike carries values of    *)
(* its own; that makes every event traceable to the pair it came from.     *)

RouteSources == {<<0, 0>>, <<1, 0>>, <<1, 1>>}

\* The gathered vectors of at most n spikes, every slice sorted by source;
\* the spikes either all at time 0 or each at a time of its own.
RouteGathered(n, sources) ==
    LET sorted == {s \in SeqsUpTo(sources, n) :
                      \A a, b \in DOMAIN s : a < b => ~MemberLess(s[b], s[a])}
        slices == {t \in SeqProduct([d \in 1 .. NumDomains |-> sorted]) :
                      Len(Concat(t)) <= n}
    IN  {[values    |-> [k \in 1 .. Len(Concat(ss)) |->
                            [source |-> Concat(ss)[k], time |-> step * k]],
          partition |-> make_index([d \in 1 .. NumDomains |-> Len(ss[d])])] :
            ss \in slices, step \in {0, MaxConns + 1}}

\* Queues as a caller passes them with one event still pending per cell.
PendingQueues ==
    [d \in Domains |-> [k \in 1 .. comm[d].num_local_cells |->
        <<[target |-> k - 1, weight |-> 0, time |-> 0]>>]]

RouteInit ==
    /\ Constructed(TaggedRecipes(MaxConns, RouteSources), OneGroup)
    /\ queues \in {EmptyQueues, PendingQueues}
    /\ \E gs \in RouteGathered(MaxSpikes, RouteSources) :
          global_spikes = [d \in Domains |-> gs]

RouteNext == \E d \in Domains : MakeEventQueues(d)

RouteSpec == RouteInit /\ [][RouteNext]_vars

----------------------------------------------------------------------------
(* DelaySpec: min_delay as a function of the connection tables.             *)

Delays == {0, 1, 2}

DelayInit ==
    /\ Constructed(RecipesUpTo(MaxConns, {<<0, 0>>}, {1}, Delays), OneGroup)
    /\ queues = EmptyQueues
    /\ global_spikes = [d \in Domains |-> NoSpikes]

DelayNext == MinDelay

DelaySpec == DelayInit /\ [][DelayNext]_vars

----------------------------------------------------------------------------
(* ExchangeSpec: one exchange as a function of the domains' local spikes.   *)

ExchangeSpikes == [source : {<<0, 0>>, <<0, 1>>, <<1, 0>>}, time : {0, 1}]

ExchangeInit ==
    /\ Constructed(RecipesUpTo(0, {}, {}, {}), OneGroup)
    /\ queues = EmptyQueues
    /\ global_spikes = [d \in Domains |-> NoSpikes]

ExchangeNext == Exchange(ExchangeSpikes, MaxLocalSpikes, 1)

ExchangeSpec == ExchangeInit /\ [][ExchangeNext]_vars

----------------------------------------------------------------------------
(* BuildSpec: the constructor as a function of the recipe and the group     *)
(* lists, and group_queue_range on what it built.                           *)

MaxBuildConns == 3

BuildInit ==
    /\ Decomposed
    /\ recipe \in TaggedRecipes(MaxBuildConns, RouteSources)
    /\ groups \in PerDomain(GroupLayouts)
    /\ comm = [d \in Domains |-> NotConstructed]
    /\ queues = [d \in Domains |-> <<>>]
    /\ global_spikes = [d \in Domains |-> NoSpikes]
    /\ since_reset = [d \in Domains |-> <<>>]
    /\ call = [op |-> "none", dom |-> 0, arg |-> <<>>, ret |-> <<>>, before |-> <<>>]

BuildNext ==
    \/ \E d \in Domains : Build(d)
    \/ \E d \in Domains : GroupQueueRange(d)

BuildSpec == BuildInit /\ [][BuildNext]_vars

----------------------------------------------------------------------------
(* FailSpec: exchanges some of which fail in the transport.                 *)

FailSpikes == [source : {<<0, 0>>}, time : {0}]

FailInit ==
    /\ Constructed(RecipesUpTo(0, {}, {}, {}), OneGroup)
    /\ queues = EmptyQueues
    /\ global_spikes = [d \in Domains |-> NoSpikes]

FailNext ==
    \/ Exchange(FailSpikes, MaxLocalSpikes, MaxExchanges)
    \/ ExchangeFails(FailSpikes, MaxLocalSpikes, MaxExchanges)

FailSpec == FailInit /\ [][FailNext]_vars

----------------------------------------------------------------------------
(* WorkerSpec: the constructor with its parallel loops unrolled into       *)
(* workers that run in any order.                                          *)

WorkerInit ==
    /\ Decomposed
    /\ recipe \in TaggedRecipes(MaxConns, RouteSources)
    /\ groups \in PerDomain(GroupLayouts)
    /\ comm = [d \in Domains |-> NotConstructed]
    /\ queues = [d \in Domains |-> <<>>]
    /\ global_spikes = [d \in Domains |-> NoSpikes]
    /\ since_reset = [d \in Domains |-> <<>>]
    /\ call = [op |-> "none", dom |-> 0, arg |-> <<>>, ret |-> <<>>, before |-> <<>>]

WorkerNext ==
    \/ \E d \in Domains : StartConstruct(d)
    \/ \E i \in 0 .. NumCells - 1 : QueryWorker(i)
    \/ PlaceAll
    \/ \E i \in Domains : SortWorker(i)
    \/ FinishConstruct

WorkerSpec == WorkerInit /\ [][WorkerNext]_vars

----------------------------------------------------------------------------
(* DecompSpec: distribute_cells on every domain of a policy, for any        *)
(* number of cells and domains and any rounding of the products.            *)

MaxCells == 8

MaxDomains == 4

DecompInit ==
    /\ \E size \in 1 .. MaxDomains : \E num_cells \in 0 .. MaxCells :
       \E lowered \in SUBSET MayLower(size, num_cells) :
          policy = [size |-> size, num_cells |-> num_cells, lowered |-> lowered]
    /\ cell_range = <<>>
    /\ running = Idle
    /\ recipe = RecipeOf(<<>>)
    /\ groups = [d \in Domains |-> <<>>]
    /\ comm = [d \in Domains |-> NotConstructed]
    /\ queues = [d \in Domains |-> <<>>]
    /\ global_spikes = [d \in Domains |-> NoSpikes]
    /\ since_reset = [d \in Domains |-> <<>>]
    /\ call = [op |-> "none", dom |-> 0, arg |-> <<>>, ret |-> <<>>, before |-> <<>>]

DecompNext == \E d \in 0 .. MaxDomains - 1 : DistributeCells(d)

DecompSpec == DecompInit /\ [][DecompNext]_vars

----------------------------------------------------------------------------
(* WalkSpec: make_event_queues with its loops unrolled.  The loops look at *)
(* sources and lengths only, so connections and spikes differ in nothing   *)
(* else.  The thread that entered the call keeps running, hence the        *)
(* fairness.                                                               *)

WalkSources == {<<0, 0>>, <<1, 0>>}

WalkInit ==
    /\ Constructed(RecipesUpTo(MaxConns, WalkSources, {1}, {1}), OneGroup)
    /\ queues = EmptyQueues
    /\ \E gs \in RouteGathered(MaxSpikes, WalkSources) :
          /\ \A j \in DOMAIN gs.values : gs.values[j].time = 0
          /\ global_spikes = [d \in Domains |-> gs]

\* No domain has got an event yet.
NothingQueued == \A d \in Domains : \A k \in DOMAIN queues[d] : queues[d][k] = <<>>

WalkNext ==
    \/ \E d \in Domains : NothingQueued /\ StartRoute(d)
    \/ EnterDomain
    \/ WalkStep
    \/ LeaveDomain
    \/ FinishRoute

WalkSpec == WalkInit /\ [][WalkNext]_vars /\ WF_vars(WalkNext)

----------------------------------------------------------------------------
(* What the claims speak of. *)

\* The connections of source domain d in the table of communicator c.
Bucket(c, d) ==
    subrange_view(c.connections, c.connection_part[d + 1], c.connection_part[d + 2])

\* The spikes domain d contributed to the gathered vector gs.
Slice(gs, d) == subrange_view(gs.values, gs.partition[d + 1], gs.partition[d + 2])

SortedBySource(s) == \A a, b \in DOMAIN s : a < b => ~MemberLess(s[b].source, s[a].source)

RouteCalled == call.op = "make_event_queues"

\* The events the last make_event_queues call added to queue k of its domain.
Appended(k) ==
    SubSeq(queues[call.dom][k], Len(call.before[k]) + 1, Len(queues[call.dom][k]))

AllAppended == Concat([k \in 1 .. Len(queues[call.dom]) |-> Appended(k)])

\* The (domain, connection, spike) triples of equal source, by position.
Matches(c, gs) ==
    {m \in Domains \X (1 .. Len(c.connections)) \X (1 .. Len(gs.values)) :
        /\ m[2] \in DOMAIN Bucket(c, m[1])
        /\ m[3] \in DOMAIN Slice(gs, m[1])
        /\ Bucket(c, m[1])[m[2]].source = Slice(gs, m[1])[m[3]].source}

MatchCon(c, m) == Bucket(c, m[1])[m[2]]

MatchSpike(gs, m) == Slice(gs, m[1])[m[3]]

\* C1: one make_event_queues call appends to queue k exactly one event per
\* (connection, spike) pair of equal source in the same source domain whose
\* connection has index_on_domain k, and nothing else.
C1_PairsEverySpikeWithEveryConnection ==
    RouteCalled =>
        LET c  == comm[call.dom]
            gs == call.arg
            for(k) == {m \in Matches(c, gs) : MatchCon(c, m).index_on_domain = k - 1}
            ev(m)  == make_event(MatchCon(c, m), MatchSpike(gs, m))
        IN  \A k \in DOMAIN queues[call.dom] :
                /\ Len(Appended(k)) = Cardinality(for(k))
                /\ \A e \in Range(Appended(k)) \cup {ev(m) : m \in for(k)} :
                       CountIn(Appended(k), e) = Cardinality({m \in for(k) : ev(m) = e})

\* Two spikes and two connections of one source gave four events; a spike
\* and a connection without partner gave none.
C1_Witness ==
    /\ RouteCalled
    /\ Len(AllAppended) = 4
    /\ \E d \in Domains :
          /\ Len(Bucket(comm[call.dom], d)) = 2
          /\ Len(Slice(call.arg, d)) = 3
          /\ Cardinality({m \in Matches(comm[call.dom], call.arg) : m[1] = d}) = 4

\* The pushes of a call when every domain is walked by walk.
PushesBy(walk(_, _, _, _), c, gs) ==
    Concat([d \in 1 .. NumDomains |-> walk(Bucket(c, d - 1), Slice(gs, d - 1), 0, 0)])

EventsOf(pushes) == [k \in 1 .. Len(pushes) |-> pushes[k].event]

\* C2: the events a make_event_queues call appends over all queues are, as
\* a multiset, those of the connections-outer walk of every domain and those
\* of the spikes-outer walk of every domain.
C2_StrategiesGiveTheSameMultiset ==
    RouteCalled =>
        /\ SameMultiset(AllAppended,
                        EventsOf(PushesBy(WalkConnections, comm[call.dom], call.arg)))
        /\ SameMultiset(AllAppended,
                        EventsOf(PushesBy(WalkSpikes, comm[call.dom], call.arg)))

\* A call whose two walks emit the same events in different orders.
C2_Witness ==
    /\ RouteCalled
    /\ Len(AllAppended) >= 2
    /\ PushesBy(WalkConnections, comm[call.dom], call.arg)
          /= PushesBy(WalkSpikes, comm[call.dom], call.arg)

\* C3: make_event_queues leaves the number of queues unchanged and every
\* queue's former contents as a prefix of its new contents.
C3_OnlyAppends ==
    RouteCalled =>
        /\ Len(queues[call.dom]) = Len(call.before)
        /\ \A k \in DOMAIN call.before : IsPrefix(call.before[k], queues[call.dom][k])

\* A call that added events behind events already queued.
C3_Witness ==
    /\ RouteCalled
    /\ \E k \in DOMAIN call.before :
          /\ call.before[k] /= <<>>
          /\ Len(queues[call.dom][k]) > Len(call.before[k])

\* C4: every event a call appends to queue k comes from a connection and a
\* spike of equal source in one source domain, with the connection's
\* index_on_domain k as target, the connection's weight, and the spike's
\* time plus the connection's delay as time.
C4_EventOfItsPair ==
    RouteCalled =>
        \A k \in DOMAIN queues[call.dom] : \A e \in Range(Appended(k)) :
            \E m \in Matches(comm[call.dom], call.arg) :
                LET con == MatchCon(comm[call.dom], m)
                    spk == MatchSpike(call.arg, m)
                IN  /\ con.index_on_domain = k - 1
                    /\ e.target = con.index_on_domain
                    /\ e.weight = con.weight
                    /\ e.time = spk.time + con.delay

\* A call that delivered two different events to two different queues.
C4_Witness ==
    /\ RouteCalled
    /\ \E j, k \in DOMAIN queues[call.dom] :
          /\ j /= k
          /\ Appended(j) /= <<>>
          /\ Appended(k) /= <<>>
          /\ Appended(j)[1].time /= Appended(k)[1].time

Exchanged == call.op = "exchange"

\* C5: in the result of exchange on any domain, the slice of domain d is a
\* rearrangement of the local_spikes domain d passed, in non-decreasing
\* source order.
C5_SlicesAreSortedLocalSpikes ==
    Exchanged =>
        \A rank \in Domains : \A d \in Domains :
            /\ SameMultiset(Slice(call.ret[rank], d), call.arg[d])
            /\ SortedBySource(Slice(call.ret[rank], d))

\* An exchange that had to reorder a domain's spikes.
C5_Witness ==
    /\ Exchanged
    /\ \E d \in Domains :
          /\ Len(call.arg[d]) = 2
          /\ ~SortedBySource(call.arg[d])
          /\ Slice(call.ret[0], d) /= call.arg[d]

\* C6: the results of one exchange have, on all domains, the same spikes
\* (as a multiset) and the same partition.
C6_SameResultOnEveryDomain ==
    Exchanged =>
        \A d, e \in Domains :
            /\ SameMultiset(call.ret[d].values, call.ret[e].values)
            /\ call.ret[d].partition = call.ret[e].partition

\* An exchange in which the domains passed different numbers of spikes.
C6_Witness ==
    /\ Exchanged
    /\ \E d, e \in Domains : Len(call.arg[d]) /= Len(call.arg[e])
    /\ \A d \in Domains : call.arg[d] /= <<>>

\* C7: num_spikes is the sum of the sizes of the gathered vectors returned
\* since the last reset (or construction); it is zero right after reset and
\* unchanged by an exchange that gathered nothing.
C7_NumSpikesIsSumSinceReset ==
    /\ \A d \in Domains : comm[d].num_spikes = SumSeq(since_reset[d])
    /\ call.op = "reset" => comm[call.dom].num_spikes = 0
    /\ Exchanged =>
          \A d \in Domains :
              call.ret[d].values = <<>> => comm[d].num_spikes = call.before[d]

\* Two exchanges since the last reset of a domain that had been reset
\* while another had not.
C7_Witness ==
    /\ Exchanged
    /\ \E d, e \in Domains :
          /\ Len(since_reset[d]) = 2
          /\ Len(since_reset[e]) = 1
          /\ comm[d].num_spikes > comm[e].num_spikes
          /\ comm[e].num_spikes > 0

MinDelayCalled == call.op = "min_delay"

TableDelays(d) == {comm[d].connections[k].delay : k \in DOMAIN comm[d].connections}

AllDelays == UNION {TableDelays(d) : d \in Domains}

\* C8: when some domain has a connection, min_delay returns on every domain
\* the least delay over the connection tables of all domains.
C8_MinDelayIsGlobalMinimum ==
    (MinDelayCalled /\ AllDelays /= {}) =>
        \A d \in Domains :
            /\ call.ret[d] \in AllDelays
            /\ \A x \in AllDelays : call.ret[d] <= x

\* The least delay is in the table of one domain only, and another domain
\* with connections of its own got it too.
C8_Witness ==
    /\ MinDelayCalled
    /\ \E d, e \in Domains :
          /\ TableDelays(d) /= {}
          /\ TableDelays(e) /= {}
          /\ \A x \in TableDelays(d) : \A y \in TableDelays(e) : x > y
          /\ call.ret[d] \in TableDelays(e)

C10_NoNonPositiveDelay ==
    \A d \in Domains : \A k \in DOMAIN comm[d].connections :
        comm[d].connections[k].delay > 0

\* What the recipe holds for domain d: for every position i of the flattened
\* group list, the connections of the cell at i, each with index i.
RecipeTable(d) ==
    LET gids == Concat(groups[d])
    IN  Concat([i \in 1 .. Len(gids) |->
            [k \in 1 .. Len(recipe[gids[i]]) |->
                [source |-> recipe[gids[i]][k].source, dest |-> recipe[gids[i]][k].dest,
                 weight |-> recipe[gids[i]][k].weight, delay |-> recipe[gids[i]][k].delay,
                 index_on_domain |-> i - 1]]])

\* C11: in a constructed table every source-domain slice is in
\* non-decreasing source order, and connections of equal source are
\* neighbours in it.
C11_BucketsSortedBySource ==
    \A d \in Domains : Built(d) =>
        \A e \in Domains :
            LET b == Bucket(comm[d], e)
            IN  /\ SortedBySource(b)
                /\ \A i, j, k \in DOMAIN b :
                       (i < j /\ j < k /\ b[i].source = b[k].source)
                           => b[j].source = b[i].source

\* A table one of whose slices the recipe listed in decreasing source order.
C11_Witness ==
    \E d \in Domains :
        /\ Built(d)
        /\ \E e \in Domains : Len(Bucket(comm[d], e)) >= 2
        /\ \E i, j \in DOMAIN RecipeTable(d) :
              /\ i < j
              /\ MemberLess(RecipeTable(d)[j].source, RecipeTable(d)[i].source)
              /\ gid_domain(RecipeTable(d)[j].source[1]) = gid_domain(RecipeTable(d)[i].source[1])

\* C12: in a constructed table the connection at a position lies in the
\* slice of source domain e exactly when gid_domain of its source gid is e.
C12_SliceIsSourceDomain ==
    \A d \in Domains : Built(d) =>
        \A e \in Domains : \A p \in DOMAIN comm[d].connections :
            (comm[d].connection_part[e + 1] < p /\ p <= comm[d].connection_part[e + 2])
                <=> gid_domain(comm[d].connections[p].source[1]) = e

\* A table with connections from both source domains, which the recipe
\* listed with a later domain's connection first.
C12_Witness ==
    \E d \in Domains :
        /\ Built(d)
        /\ \A e \in Domains : Bucket(comm[d], e) /= <<>>
        /\ \E i, j \in DOMAIN RecipeTable(d) :
              /\ i < j
              /\ gid_domain(RecipeTable(d)[j].source[1]) < gid_domain(RecipeTable(d)[i].source[1])

\* C13: a constructed table holds, as a multiset, exactly the recipe's
\* connections of the local cells, each with the position of its cell in the
\* flattened group list as index_on_domain; its length is the last entry of
\* connection_part.
C13_TableHoldsTheRecipe ==
    \A d \in Domains : Built(d) =>
        /\ SameMultiset(comm[d].connections, RecipeTable(d))
        /\ Len(comm[d].connections) = SumSeq([i \in 1 .. Len(Concat(groups[d])) |->
                                                 Len(recipe[Concat(groups[d])[i]])])
        /\ Len(comm[d].connections) = comm[d].connection_part[NumDomains + 1]

\* Three connections on two cells that the groups list in decreasing gid
\* order, so that the index of a cell is not its rank by gid.
C13_Witness ==
    \E d \in Domains :
        /\ Built(d)
        /\ Len(comm[d].connections) = 3
        /\ Len(Concat(groups[d])) = 2
        /\ Concat(groups[d])[1] > Concat(groups[d])[2]
        /\ \A i \in 1 .. 2 : recipe[Concat(groups[d])[i]] /= <<>>

\* C14: connection_part of a constructed table has num_domains + 1 entries,
\* starts at 0, never decreases, ends at the number of connections, and the
\* step at d is the number of local connections with a source of domain d.
C14_ConnectionPartCountsSources ==
    \A d \in Domains : Built(d) =>
        LET cp == comm[d].connection_part
            t  == RecipeTable(d)
        IN  /\ Len(cp) = comm[d].num_domains + 1
            /\ cp[1] = 0
            /\ cp[comm[d].num_domains + 1] = Len(t)
            /\ \A e \in Domains :
                  /\ cp[e + 1] <= cp[e + 2]
                  /\ cp[e + 2] - cp[e + 1] =
                        Cardinality({k \in DOMAIN t : gid_domain(t[k].source[1]) = e})

\* A table with one connection from one domain and two from the other.
C14_Witness ==
    \E d \in Domains :
        /\ Built(d)
        /\ comm[d].connection_part \in {<<0, 1, 3>>, <<0, 2, 3>>}

\* C15: group_queue_range(g) is [lo, hi) with lo the number of cells in the
\* groups listed before g and hi - lo the number of cells of group g; the
\* last group's hi is num_local_cells.
C15_GroupRangeIsTheGroupsCells ==
    call.op = "group_queue_range" =>
        LET grps == groups[call.dom]
            g    == call.arg
        IN  /\ call.ret[1] = SumSeq([j \in 1 .. g |-> Len(grps[j])])
            /\ call.ret[2] - call.ret[1] = Len(grps[g + 1])
            /\ g = Len(grps) - 1 => call.ret[2] = comm[call.dom].num_local_cells

\* The range of the second of two groups.
C15_Witness ==
    /\ call.op = "group_queue_range"
    /\ call.arg = 1
    /\ call.ret = <<1, 2>>

\* C16: no step of exchange, make_event_queues, min_delay, group_queue_range,
\* num_spikes or reset changes the connection table, connection_part or the
\* group partition of any communicator.
C16_TablesNeverChange ==
    [][\A d \in Domains :
          /\ comm'[d].connections = comm[d].connections
          /\ comm'[d].connection_part = comm[d].connection_part
          /\ comm'[d].index_divisions = comm[d].index_divisions]_vars

\* A reset of a communicator that holds a connection and had counted spikes.
C16_Witness ==
    /\ call.op = "reset"
    /\ call.before > 0
    /\ comm[call.dom].num_spikes = 0
    /\ comm[call.dom].connections /= <<>>

\* The spikes of gs each carry a time of their own, a multiple of
\* MaxConns + 1, so that an event's time tells the position of its spike.
SpikesTagged(gs) ==
    /\ gs.values /= <<>>
    /\ \A j \in DOMAIN gs.values : gs.values[j].time = (MaxConns + 1) * j

\* C17: a make_event_queues call whose gathered spikes are empty, or in
\* which every domain has an empty bucket or an empty slice, leaves the
\* queues as they were; and no appended event comes from a spike of a
\* domain whose bucket is empty.
C17_NothingFromNothing ==
    RouteCalled =>
        LET c  == comm[call.dom]
            gs == call.arg
        IN  /\ gs.values = <<>> => queues[call.dom] = call.before
            /\ (\A d \in Domains : Bucket(c, d) = <<>> \/ Slice(gs, d) = <<>>)
                   => queues[call.dom] = call.before
            /\ SpikesTagged(gs) =>
                  \A e \in Range(AllAppended) :
                      \E d \in Domains :
                          /\ gs.partition[d + 1] < e.time \div (MaxConns + 1)
                          /\ e.time \div (MaxConns + 1) <= gs.partition[d + 2]
                          /\ Bucket(c, d) /= <<>>

\* A call without spikes on a domain with connections and pending events.
C17_Witness ==
    /\ RouteCalled
    /\ call.arg.values = <<>>
    /\ comm[call.dom].connections /= <<>>
    /\ \E k \in DOMAIN call.before : call.before[k] /= <<>>
    /\ queues[call.dom] = call.before

\* The matches in traversal order: by domain, then by the position in the
\* outer sequence, then by the position in the inner one; the connections
\* are outer in a domain with fewer connections than spikes.
TraversalOrder(c, gs) ==
    LET n == Len(c.connections) + Len(gs.values)
        triple(x) ==
            LET d == x \div (n * n)
                o == ((x \div n) % n) + 1
                i == (x % n) + 1
            IN  IF Len(Bucket(c, d)) < Len(Slice(gs, d)) THEN <<d, o, i>> ELSE <<d, i, o>>
        matched(m) == m \in Matches(c, gs)
    IN  SelectSeq([x \in 1 .. NumDomains * n * n |-> triple(x - 1)], matched)

\* C19: the events a make_event_queues call appends to a queue are those of
\* the queue's matches in traversal order.
C19_QueueInTraversalOrder ==
    RouteCalled =>
        LET c  == comm[call.dom]
            gs == call.arg
        IN  \A k \in DOMAIN queues[call.dom] :
                LET mine(m) == MatchCon(c, m).index_on_domain = k - 1
                    ms      == SelectSeq(TraversalOrder(c, gs), mine)
                IN  Appended(k) =
                        [j \in 1 .. Len(ms) |-> make_event(MatchCon(c, ms[j]), MatchSpike(gs, ms[j]))]

\* A queue that got two events from one domain and one from the other.
C19_Witness ==
    /\ RouteCalled
    /\ \E k \in DOMAIN queues[call.dom] :
          /\ Len(Appended(k)) = 3
          /\ \E m1, m2 \in Matches(comm[call.dom], call.arg) :
                /\ m1[1] /= m2[1]
                /\ MatchCon(comm[call.dom], m1).index_on_domain = k - 1
                /\ MatchCon(comm[call.dom], m2).index_on_domain = k - 1
          /\ Appended(k)[1] /= Appended(k)[3]

\* The events for queue k among pushes, in their order.
EventsFor(pushes, k) ==
    LET mine(p) == p.queue = k - 1
    IN  EventsOf(SelectSeq(pushes, mine))

\* C20: for every source domain the events appended are those of the
\* connections-outer walk if the domain has fewer connections than spikes,
\* and those of the spikes-outer walk otherwise, ties included.
C20_StrategyBySize ==
    RouteCalled =>
        LET c  == comm[call.dom]
            gs == call.arg
            of(d) == IF Len(Bucket(c, d)) < Len(Slice(gs, d))
                     THEN WalkConnections(Bucket(c, d), Slice(gs, d), 0, 0)
                     ELSE WalkSpikes(Bucket(c, d), Slice(gs, d), 0, 0)
            all == Concat([d \in 1 .. NumDomains |-> of(d - 1)])
        IN  \A k \in DOMAIN queues[call.dom] : Appended(k) = EventsFor(all, k)

\* A domain with as many connections as spikes, where the two walks fill
\* some queue in different orders.
C20_Witness ==
    /\ RouteCalled
    /\ \E d \in Domains :
          LET cons == Bucket(comm[call.dom], d)
              spks == Slice(call.arg, d)
          IN  /\ Len(cons) = Len(spks)
              /\ \E k \in DOMAIN queues[call.dom] :
                    /\ EventsFor(WalkConnections(cons, spks, 0, 0), k)
                          /= EventsFor(WalkSpikes(cons, spks, 0, 0), k)
                    /\ Appended(k) = EventsFor(WalkSpikes(cons, spks, 0, 0), k)

\* C18: on a domain whose gather_spikes failed, exchange returns no gathered
\* vector and num_spikes is what it was before the call, the sum of the
\* exchanges that completed.
C18_FailedExchangeCountsNothing ==
    call.op = "exchange_failed" =>
        \A d \in call.failed :
            /\ d \notin DOMAIN call.ret
            /\ comm[d].num_spikes = call.before[d]
            /\ comm[d].num_spikes = SumSeq(since_reset[d])

\* A failure on a domain that passed spikes and had counted some before.
C18_Witness ==
    /\ call.op = "exchange_failed"
    /\ \E d \in call.failed :
          /\ call.arg[d] /= <<>>
          /\ call.before[d] > 0

Constructing == running.op = "construct"

\* C21: in either parallel loop of the constructor no element is touched by
\* two workers: query worker i touches gid_infos[i] only, sort worker d the
\* positions [connection_part[d], connection_part[d+1]) only; and whatever
\* the order of the workers, gid_infos, the partitions and every bucket (as
\* a multiset) come out as in the constructor run in one piece.
C21_WorkersDoNotInterfere ==
    Constructing =>
        /\ \A t, u \in running.touched :
               (t.phase = u.phase /\ t.worker /= u.worker) => t.elems \cap u.elems = {}
        /\ \A t \in running.touched :
               /\ t.phase = "query" => t.elems = {t.worker}
               /\ t.phase = "sort" =>
                      t.elems = running.connection_part[t.worker + 1]
                                    .. running.connection_part[t.worker + 2] - 1
        /\ running.phase \in {"sort", "done"} =>
               running.gid_infos = GidInfos(recipe, FlatGids(groups[running.dom]))
        /\ running.phase = "done" =>
               \A c \in Construct(recipe, groups[running.dom]) :
                   /\ comm[running.dom].connection_part = c.connection_part
                   /\ comm[running.dom].index_divisions = c.index_divisions
                   /\ \A e \in Domains :
                          SameMultiset(Bucket(comm[running.dom], e), Bucket(c, e))

\* A finished construction on two cells with two connections in one bucket,
\* whose workers ran in decreasing order in both loops.
C21_Witness ==
    /\ Constructing
    /\ running.phase = "done"
    /\ running.order = <<<<"query", 1>>, <<"query", 0>>, <<"sort", 1>>, <<"sort", 0>>>>
    /\ \E e \in Domains : Len(Bucket(comm[running.dom], e)) = 2

\* C22: the blocks distribute_cells returns on the domains of a policy have
\* cell_from <= cell_to, start at 0 on domain 0, end at num_cells on the last
\* domain, each end where the next begins, and once every domain has its
\* block every gid below num_cells lies in exactly one of them.
C22_BlocksTileTheCells ==
    /\ \A d \in DOMAIN cell_range :
          /\ cell_range[d][1] <= cell_range[d][2]
          /\ d = 0 => cell_range[d][1] = 0
          /\ d = policy.size - 1 => cell_range[d][2] = policy.num_cells
          /\ d + 1 \in DOMAIN cell_range => cell_range[d][2] = cell_range[d + 1][1]
    /\ DOMAIN cell_range = 0 .. policy.size - 1 =>
          \A gid \in 0 .. policy.num_cells - 1 :
              Cardinality({d \in DOMAIN cell_range :
                              cell_range[d][1] <= gid /\ gid < cell_range[d][2]}) = 1

\* Three domains and six cells, with the product of one inner end rounded
\* below its whole value: the blocks are uneven and still tile the cells.
C22_Witness ==
    /\ policy.size = 3
    /\ policy.num_cells = 6
    /\ policy.lowered = {1}
    /\ DOMAIN cell_range = 0 .. 2
    /\ cell_range[1] = <<1, 4>>

\* The length of the sequence the loop of the running call walks outer.
OuterLength ==
    IF running.outer = "cons" THEN Len(RunningCons) ELSE Len(RunningSpks)

\* C23: a make_event_queues call that was entered returns; on the way every
\* iteration of a while loop advances the outer iterator by exactly one and
\* does not move the inner one backwards, the loop of a domain makes at most
\* as many iterations as its outer sequence is long, and the body of the
\* domain loop is entered num_domains times.
C23_RoutingTerminates ==
    /\ [](Routing =>
             /\ running.stage = "walk" =>
                    /\ running.iters <= OuterLength
                    /\ running.cn <= Len(RunningCons)
                    /\ running.sp <= Len(RunningSpks)
             /\ running.visited <= comm[running.dom].num_domains
             /\ running.stage = "done" => running.visited = comm[running.dom].num_domains)
    /\ [][(Routing /\ running.stage = "walk" /\ running'.stage = "walk") =>
             /\ running'.iters = running.iters + 1
             /\ running.outer = "cons" =>
                    running'.cn = running.cn + 1 /\ running'.sp >= running.sp
             /\ running.outer = "spks" =>
                    running'.sp = running.sp + 1 /\ running'.cn >= running.cn]_vars
    /\ (Routing /\ running.stage /= "done") ~> (Routing /\ running.stage = "done")

\* A call that has returned after a connections-outer loop of two
\* iterations over three spikes in the last domain.
C23_Witness ==
    /\ Routing
    /\ running.stage = "done"
    /\ Len(running.pushes) >= 3
    /\ running.outer = "cons"
    /\ running.iters = 2

\* C24: every connection of a constructed table has index_on_domain in
\* [0, num_local_cells), and every push_back of a make_event_queues call
\* names one of the num_local_cells queues the caller passed.
C24_QueueIndexInBounds ==
    /\ \A d \in Domains : Built(d) =>
          \A k \in DOMAIN comm[d].connections :
              /\ 0 <= comm[d].connections[k].index_on_domain
              /\ comm[d].connections[k].index_on_domain < comm[d].num_local_cells
    /\ Routing =>
          /\ Len(queues[running.dom]) = comm[running.dom].num_local_cells
          /\ \A j \in DOMAIN running.pushes :
                 running.pushes[j].queue + 1 \in DOMAIN queues[running.dom]

\* A call that has returned after pushing onto the first and onto the last
\* queue of a domain with two cells.
C24_Witness ==
    /\ Routing
    /\ running.stage = "done"
    /\ comm[running.dom].num_local_cells = 2
    /\ \E i, j \in DOMAIN running.pushes :
          running.pushes[i].queue = 0 /\ running.pushes[j].queue = 1

====
